---------------------------- MODULE Spec2Model ----------------------------
(***************************************************************************)
(* The auto-CRUD router of fastapi_autocrud_rishabh as it is wired by the  *)
(* basic example, the advanced (JWT + roles) example and the test          *)
(* fixtures.  A request is a sequence of steps, and the steps of different *)
(* requests interleave: Open (the request arrives; in the advanced example *)
(* HTTPBearer reads the credentials), Verify (verify_token, in the thread  *)
(* pool), AddUser (add_user_to_request), Acquire (the session provider up  *)
(* to its yield), Handle (body validation and the CRUD handler, one        *)
(* transaction, then the response model) and Finish (the response is sent  *)
(* and the session provider's finally block runs).                         *)
(*                                                                         *)
(* JSON values are strings tagged with their JSON type ("int:25" is the    *)
(* number 25, "str:25" the string "25"), so that a coercion is visible.    *)
(* The created_at column (a clock value) is left out.                      *)
(***************************************************************************)
EXTENDS Integers, FiniteSets, Sequences, TLC

VARIABLES app, rows, req, live, fixture, last

vars == <<app, rows, req, live, fixture, last>>

\* ------------------------------------------------------------------ bounds

\* Largest primary key a request addresses and a create may assign.
MaxId == 2

\* The number of requests that can be in flight at the same time.
MaxInFlight == 2

\* Request slots.
Requests == 1..MaxInFlight

\* ------------------------------------------------------------- the wirings

Apps == {"basic", "advanced", "test"}

Ops == {"list", "get", "create", "update", "delete"}

Roles == {"admin", "staff", "user"}

\* The role getter's absent value (None).
NoRole == "none"

\* ------------------------------------------------------------- JSON values

\* The key is not in the body.
Absent == "absent"

\* JSON null.
Null == "null"

\* A JSON value of a type no field accepts (an array).
Bad == "bad"

StrVals == {"str:Alice", "str:Bob", "str:Charlie", "str:Diana", "str:Eve",
            "str:a@x", "str:b@x", "str:alice@example.com",
            "str:bob@example.com", "str:charlie@example.com",
            "str:diana@example.com", "str:eve@example.com",
            "str:admin", "str:staff", "str:user", "str:25"}

IntVals == {"int:25", "int:30", "int:35", "int:28", "int:22", "int:1",
            "int:2", "int:3"}

\* int(s) for a string that holds a decimal number.
IntOfStr(v) == IF v = "str:25" THEN "int:25" ELSE Bad

\* The Python int of a JSON number used as a primary key.
IdOf(v) == CASE v = "int:1" -> 1 [] v = "int:2" -> 2 [] v = "int:3" -> 3
             [] OTHER -> 0

\* ------------------------------------------------------ models and schemas

\* class User(Base): the mapped columns.
Columns(a) == IF a = "advanced" THEN {"id", "username", "email", "role"}
              ELSE {"id", "name", "email", "age", "role"}

\* Columns declared unique=True.
UniqueColumns(a) == IF a = "advanced" THEN {"username", "email"}
                    ELSE {"email"}

\* Column(String, default="user"): the value an INSERT uses for a column
\* whose attribute is None.
ColumnDefault(f) == IF f = "role" THEN "str:user" ELSE Null

\* class UserCreate(BaseModel): the fields.
CreateFields(a) == Columns(a) \ {"id"}

\* A faulty UserUpdateFields: the update schema also has a role field.
UserUpdateFields_WithRole == {"name", "email", "age", "role"}

\* A faulty UserUpdateFields: the update schema also has an id field.
UserUpdateFields_WithId == {"id", "name", "email", "age"}

\* class UserUpdate(BaseModel): the fields (conftest).
UserUpdateFields == {"name", "email", "age"}

\* A field's annotation: int or str.
FieldType(f) == IF f \in {"age", "id"} THEN "int" ELSE "str"

\* A faulty CreateRequired: every field of UserCreate is optional.
CreateRequired_None(a) == {}

\* UserCreate: role: Optional[str] = "user" is the one field with a default.
CreateRequired(a) == CreateFields(a) \ {"role"}

\* A faulty CreateDefault: the default role is "admin".
CreateDefault_Admin(f) == IF f = "role" THEN "str:admin" ELSE Absent

\* UserCreate: the default of an omitted field.
CreateDefault(f) == IF f = "role" THEN "str:user" ELSE Absent

\* Optional[...] fields accept null.
CreateNullable == {"role"}

\* pydantic's validation of one value against int or str: the validated value,
\* or Bad.
Coerce(type, v) ==
    IF type = "int"
    THEN IF v \in IntVals THEN v ELSE IntOfStr(v)
    ELSE IF v \in StrVals THEN v ELSE Bad

\* Whether `body` validates against UserCreate.
CreateValid(a, body) ==
    \A f \in CreateFields(a) :
        CASE body[f] = Absent -> f \notin CreateRequired(a)
          [] body[f] = Null -> f \in CreateNullable
          [] OTHER -> Coerce(FieldType(f), body[f]) # Bad

\* UserCreate(**body).dict(): every field, defaults filled in, values coerced;
\* keys that are not fields are ignored.
CreateParsed(a, body) ==
    [f \in CreateFields(a) |->
        CASE body[f] = Absent -> CreateDefault(f)
          [] body[f] = Null -> Null
          [] OTHER -> Coerce(FieldType(f), body[f])]

\* What ReadSchema and Respond give when the response model does not
\* validate (pydantic's ValidationError).
Unreadable == [id |-> 0]

\* class UserRead(BaseModel), from_attributes: the response built from a row.
\* No field of UserRead is Optional: a column holding NULL does not validate.
ReadSchema(a, row) ==
    IF \A f \in Columns(a) \ {"id"} : Coerce(FieldType(f), row[f]) # Bad
    THEN [f \in Columns(a) |-> row[f]]
    ELSE Unreadable

\* The schema an update body is validated against: update_schema when the
\* router is given one (the test wiring: UserUpdate), else create_schema.
UpdateFields(a) == IF a = "test" THEN UserUpdateFields ELSE CreateFields(a)

\* UserUpdate: every field is Optional with default None.
UpdateRequired(a) == IF a = "test" THEN {} ELSE CreateRequired(a)

\* Whether `body` validates against the update schema.
UpdateValid(a, body) ==
    \A f \in UpdateFields(a) :
        CASE body[f] = Absent -> f \notin UpdateRequired(a)
          [] body[f] = Null -> f \notin UpdateRequired(a) \/ f \in CreateNullable
          [] OTHER -> Coerce(FieldType(f), body[f]) # Bad

\* The fields an update body sets (dict(exclude_unset=True)), coerced; keys
\* that are not fields of the schema are ignored.
UpdateParsed(a, body) ==
    [f \in {g \in UpdateFields(a) : body[g] # Absent} |->
        IF body[f] = Null THEN Null ELSE Coerce(FieldType(f), body[f])]

\* ------------------------------------------------------------ the database

Max(S) == CHOOSE x \in S : \A y \in S : y <= x

Ids(table) == {r.id : r \in table}

\* INTEGER PRIMARY KEY on SQLite: the rowid, one more than the largest in use.
NextId(table) == IF table = {} THEN 1 ELSE Max(Ids(table)) + 1

\* The primary key and unique constraints, checked at commit
\* (IntegrityError).  SQLite's unique index holds any number of NULLs.
ConstraintsOk(a, others, row) ==
    \A r \in others :
        /\ r.id # row.id
        /\ \A c \in UniqueColumns(a) : row[c] = Null \/ r[c] # row[c]

\* The value stored in column c for the validated JSON value v.
ToColumn(c, v) == IF c = "id" THEN IdOf(v) ELSE v

\* User(**data) as inserted: the key assigned, a None attribute replaced by
\* the column's default.
NewRow(a, table, data) ==
    [c \in Columns(a) |->
        IF c = "id" THEN NextId(table)
        ELSE IF data[c] = Null THEN ColumnDefault(c) ELSE data[c]]

\* setattr(row, field, value) for every field the update body sets.
UpdatedRow(a, old, set) ==
    [c \in Columns(a) |->
        IF c \in DOMAIN set THEN ToColumn(c, set[c]) ELSE old[c]]

\* ------------------------------------------------------------------- roles

\* A faulty RolesAdvanced: the "create" entry is missing.
RolesAdvanced_NoCreate == [delete |-> {"admin"}, update |-> {"admin", "staff"}]

\* A faulty RolesAdvanced: the "delete" entry also admits "user".
RolesAdvanced_DeleteByUser ==
    [delete |-> {"admin", "user"}, update |-> {"admin", "staff"},
     create |-> {"admin"}]

\* roles={...} of the advanced example.
RolesAdvanced == [delete |-> {"admin"}, update |-> {"admin", "staff"},
                  create |-> {"admin"}]

\* The example scenario's role map: delete requires "admin".
RolesTest == [delete |-> {"admin"}]

\* The router's role map; the basic example is given none.
RoleMap(a) == CASE a = "advanced" -> RolesAdvanced
                [] a = "test" -> RolesTest
                [] OTHER -> <<>>

\* Role enforcement: unrestricted without an entry, else membership.
RoleAllowed(a, op, role) ==
    op \in DOMAIN RoleMap(a) => role \in RoleMap(a)[op]

\* ---------------------------------------------------------- authentication

\* The Authorization header of a request: a bearer token signed by
\* create_access_token with a role, still valid or expired; a bearer token
\* that does not decode; a bearer token signed with SECRET_KEY whose payload
\* is not a TokenData (no role, or a role that is not a string); no header;
\* a header of another scheme (Basic).
Tokens ==
    [kind : {"valid"}, role : Roles]
        \cup [kind : {"expired"}, role : {"admin"}]
        \cup [kind : {"invalid", "malformed", "missing", "basic"},
              role : {"none"}]

NoToken == [kind |-> "none", role |-> NoRole]

\* security = HTTPBearer(): without bearer credentials the request is
\* answered 403 before verify_token runs.
HttpBearer(tok) == IF tok.kind \in {"missing", "basic"} THEN 403 ELSE 200

\* verify_token: the TokenData's role; 401 for jwt.ExpiredSignatureError and
\* jwt.InvalidTokenError; TokenData(**payload) raises a ValidationError that
\* neither except clause catches, and the request ends in 500.
VerifyToken(tok) ==
    CASE tok.kind = "valid" -> [status |-> 200, role |-> tok.role]
      [] tok.kind = "malformed" -> [status |-> 500, role |-> NoRole]
      [] OTHER -> [status |-> 401, role |-> NoRole]

\* add_user_to_request: request.state.user after the dependency ran.
AddUserToRequest(tok) == VerifyToken(tok).role

\* get_user_role: request.state.user.role, None without the attribute.
GetUserRole(slot) == IF slot.user # NoRole THEN slot.user ELSE NoRole

\* What the role getter of a wiring can return when the role check of `op`
\* calls it: request.state.user's role in the advanced example, a role the
\* scenario fixes under the test fixtures.  Without a role-map entry the role
\* check does not call it.
RoleGetter(a, slot, op) ==
    CASE a = "advanced" -> {GetUserRole(slot)}
      [] a = "test" /\ op \in DOMAIN RoleMap(a) -> {"admin", "user", NoRole}
      [] OTHER -> {NoRole}

\* -------------------------------------------------------- session provider

\* The db_session fixture's one session.
FixtureSession == 0

NoSession == -1

\* A faulty NewSession: one module-level session is handed to every request.
NewSession_Shared(open) == 1

\* SessionLocal(): an object distinct from every open one.
NewSession(open) == CHOOSE s \in 1..(Cardinality(open) + 1) : s \notin open

\* get_db up to its yield: the session the request is given.
GetDb(a, open) == IF a = "test" THEN FixtureSession ELSE NewSession(open)

\* A faulty CloseDb: get_db without db.close().
CloseDb_Leak(a, open, s) == open

\* get_db after its yield (finally): the sessions still open.
CloseDb(a, open, s) == IF a = "test" THEN open ELSE open \ {s}

\* The rows the sample_users fixture commits through the fixture's session.
SampleUsers ==
    {[id |-> 1, name |-> "str:Alice", email |-> "str:alice@example.com",
      age |-> "int:25", role |-> "str:admin"],
     [id |-> 2, name |-> "str:Bob", email |-> "str:bob@example.com",
      age |-> "int:30", role |-> "str:user"],
     [id |-> 3, name |-> "str:Charlie", email |-> "str:charlie@example.com",
      age |-> "int:35", role |-> "str:staff"],
     [id |-> 4, name |-> "str:Diana", email |-> "str:diana@example.com",
      age |-> "int:28", role |-> "str:user"],
     [id |-> 5, name |-> "str:Eve", email |-> "str:eve@example.com",
      age |-> "int:22", role |-> "str:user"]}

\* ------------------------------------------------------------ the handlers

FindRow(table, id) == {r \in table : r.id = id}

\* One handler run and the response model: the outcomes it can have, each
\* the status, the id in the response (0 without one) and the table after
\* it.  A request that fails one of the handler's checks (the body against
\* the schema, the row fetched by its key, the caller's role against the role
\* map) changes nothing; when it fails several, the check that answers is
\* not determined (the listing of 4.1 validates and fetches first, the
\* property of section 8 puts the role check first).  The response is built
\* after the commit: a row the response model rejects is answered 500 and
\* stays.
Respond(a, table, op, id, body, role) ==
    LET found == FindRow(table, id)
        old == CHOOSE r \in found : TRUE
        created == NewRow(a, table, CreateParsed(a, body))
        updated == UpdatedRow(a, old, UpdateParsed(a, body))
        same(code) == [status |-> code, id |-> id, table |-> table]
        sent(row) == IF ReadSchema(a, row) = Unreadable THEN 500 ELSE 200
        invalid == \/ op = "create" /\ ~CreateValid(a, body)
                   \/ op = "update" /\ ~UpdateValid(a, body)
        missing == op \in {"get", "update", "delete"} /\ found = {}
        denied == ~RoleAllowed(a, op, role)
        failed == (IF invalid THEN {422} ELSE {})
                      \cup (IF missing THEN {404} ELSE {})
                      \cup (IF denied THEN {403} ELSE {})
    IN IF failed # {} THEN {same(code) : code \in failed}
       ELSE CASE op = "list" ->
                   IF \E r \in table : ReadSchema(a, r) = Unreadable
                   THEN {same(500)} ELSE {same(200)}
              [] op = "get" -> {same(sent(old))}
              [] op = "create" ->
                   IF ~ConstraintsOk(a, table, created) THEN {same(500)}
                   ELSE {[status |-> sent(created), id |-> created.id,
                          table |-> table \cup {created}]}
              [] op = "update" ->
                   IF ~ConstraintsOk(a, table \ {old}, updated)
                   THEN {same(500)}
                   ELSE {[status |-> sent(updated), id |-> updated.id,
                          table |-> (table \ {old}) \cup {updated}]}
              [] OTHER ->
                   {[status |-> 200, id |-> id, table |-> table \ {old}]}

\* ---------------------------------------------------------- request inputs

EmptyBody == [none |-> Absent]

\* JSON bodies of POST /users/: the name present or missing, one of two
\* addresses, the age as a number or as a numeric string, the role omitted,
\* null or given.
CreateBodies(a) ==
    IF a = "advanced"
    THEN {[id |-> Absent, username |-> n, email |-> e, role |-> ro] :
            n \in {Absent, "str:Alice"}, e \in {"str:a@x", "str:b@x"},
            ro \in {Absent, Null, "str:admin"}}
    ELSE {[id |-> Absent, name |-> n, email |-> e, age |-> p[1],
           role |-> p[2]] :
            n \in {Absent, "str:Alice"}, e \in {"str:a@x", "str:b@x"},
            p \in {<<"int:25", Absent>>, <<"str:25", Null>>,
                   <<"int:25", "str:admin">>}}

\* JSON bodies of PUT /users/{id}: every subset of the fields, an address
\* that may be null, a value of a wrong type, and bodies with the keys "id"
\* and "role" (UserUpdate has neither).
UpdateBodies(a) ==
    IF a = "advanced"
    THEN {[id |-> Absent, username |-> n, email |-> e, role |-> ro] :
            n \in {Absent, "str:Bob"}, e \in {Absent, "str:b@x"},
            ro \in {Absent, "str:admin"}}
         \cup {[id |-> i, username |-> n, email |-> "str:b@x",
                role |-> Absent] :
                 i \in {"int:2"}, n \in {"str:Bob", Bad}}
    ELSE {[id |-> Absent, name |-> n, email |-> e, age |-> g,
           role |-> Absent] :
            n \in {Absent, "str:Bob"}, e \in {Absent, "str:b@x", Null},
            g \in {Absent, "int:25"}}
         \cup {[id |-> "int:2", name |-> "str:Bob", email |-> e, age |-> g,
                role |-> "str:admin"] :
                 e \in {Absent, "str:b@x"}, g \in {Absent, "int:25", Bad}}

\* The operations that read a JSON body: the body is parsed when the request
\* arrives, before any dependency runs.
BodyOps == {"create", "update"}

\* The parsed JSON bodies of an operation.
Bodies(a, op) == CASE op = "create" -> CreateBodies(a)
                   [] op = "update" -> UpdateBodies(a)
                   [] OTHER -> {EmptyBody}

PathIds(op) == IF op \in {"get", "update", "delete"} THEN 1..MaxId ELSE {0}

\* ------------------------------------------------------------------- state

\* A request slot: where the request is, its Authorization header and
\* request.state.user while the dependencies and the handler need them, its
\* session, and for a request that is over before the session provider runs
\* its status and, when its body did not parse, its operation.
Idle == [pc |-> "idle", tok |-> NoToken, user |-> NoRole, sess |-> NoSession,
         op |-> "none", status |-> 0]

\* The latest handler run whose response is not yet sent: the request, the
\* operation, the path id (for a create the id assigned), the body, the
\* caller's role and the status.
NoLast == [r |-> 0, op |-> "none", id |-> 0, body |-> EmptyBody,
           role |-> NoRole, status |-> 0]

InFlight(r) == req[r].pc # "idle"

\* The application is started: the tables exist and are empty or, under the
\* sample_users fixture, hold its five rows.  (A restart of an example on its
\* database file starts from a table some earlier run left, which is a state
\* with every slot idle that this run reaches as well.)
Init ==
    /\ app \in Apps
    /\ rows \in (IF app = "test" THEN {{}, SampleUsers} ELSE {{}})
    /\ req = [r \in Requests |-> Idle]
    /\ live = IF app = "test" THEN {FixtureSession} ELSE {}
    /\ fixture = IF app = "test" THEN "up" ELSE "none"
    /\ last = NoLast

\* The request arrives.  A body that is not JSON is answered 422 at once,
\* before any dependency.  In the advanced example the first of the
\* router-level dependencies then runs: HTTPBearer reads the credentials or
\* answers 403.  A rejected request gets no session and no handler.
Open(r) ==
    /\ req[r].pc = "idle"
    /\ fixture # "down"
    /\ \E tok \in (IF app = "advanced" THEN Tokens ELSE {NoToken}),
          unparsed \in BodyOps \cup {"none"} :
          req' = [req EXCEPT ![r] =
              CASE unparsed # "none" ->
                     [Idle EXCEPT !.pc = "rejected", !.tok = tok,
                                  !.op = unparsed, !.status = 422]
                [] app # "advanced" -> [Idle EXCEPT !.pc = "opened"]
                [] HttpBearer(tok) # 200 ->
                     [Idle EXCEPT !.pc = "rejected", !.tok = tok,
                                  !.status = HttpBearer(tok)]
                [] OTHER -> [Idle EXCEPT !.pc = "credentials", !.tok = tok]]
    /\ UNCHANGED <<app, rows, live, fixture, last>>

\* verify_token, run in the thread pool: the TokenData, or the request is
\* over (401, or 500 for the exception nothing catches).
Verify(r) ==
    /\ req[r].pc = "credentials"
    /\ LET res == VerifyToken(req[r].tok)
       IN req' = [req EXCEPT ![r] =
              IF res.status = 200 THEN [@ EXCEPT !.pc = "verified"]
              ELSE [@ EXCEPT !.pc = "rejected", !.status = res.status]]
    /\ UNCHANGED <<app, rows, live, fixture, last>>

\* add_user_to_request: request.state.user = token_data.
AddUser(r) ==
    /\ req[r].pc = "verified"
    /\ req' = [req EXCEPT ![r] =
           [@ EXCEPT !.pc = "opened", !.user = AddUserToRequest(req[r].tok)]]
    /\ UNCHANGED <<app, rows, live, fixture, last>>

\* get_db up to its yield.
Acquire(r) ==
    /\ req[r].pc = "opened"
    /\ LET s == GetDb(app, live)
       IN /\ req' = [req EXCEPT ![r] = [@ EXCEPT !.pc = "handling",
                                                  !.sess = s]]
          /\ live' = live \cup {s}
    /\ UNCHANGED <<app, rows, fixture, last>>

\* Body validation, the handler and the response model.
Handle(r) ==
    /\ req[r].pc = "handling"
    /\ \E op \in Ops : \E id \in PathIds(op) : \E body \in Bodies(app, op) :
       \E role \in RoleGetter(app, req[r], op) :
       \E res \in Respond(app, rows, op, id, body, role) :
             /\ Ids(res.table) \subseteq Ids(rows) \cup (1..MaxId)
             /\ rows' = res.table
             /\ req' = [req EXCEPT ![r] =
                    [Idle EXCEPT !.pc = "closing", !.sess = req[r].sess]]
             /\ last' = [r |-> r, op |-> op, id |-> res.id, body |-> body,
                         role |-> role, status |-> res.status]
    /\ UNCHANGED <<app, live, fixture>>

\* The response is sent; get_db's finally block runs when the request has a
\* session.
Finish(r) ==
    /\ req[r].pc \in {"closing", "rejected"}
    /\ req' = [req EXCEPT ![r] = Idle]
    /\ live' = IF req[r].sess = NoSession THEN live
               ELSE CloseDb(app, live, req[r].sess)
    /\ last' = IF last.r = r THEN NoLast ELSE last
    /\ UNCHANGED <<app, rows, fixture>>

\* The db_session fixture's teardown: db.close() and drop_all.
Teardown ==
    /\ fixture = "up"
    /\ \A r \in Requests : ~InFlight(r)
    /\ live' = live \ {FixtureSession}
    /\ rows' = {}
    /\ fixture' = "down"
    /\ UNCHANGED <<app, req, last>>

Next ==
    \/ \E r \in Requests : Open(r)
    \/ \E r \in Requests : Verify(r)
    \/ \E r \in Requests : AddUser(r)
    \/ \E r \in Requests : Acquire(r)
    \/ \E r \in Requests : Handle(r)
    \/ \E r \in Requests : Finish(r)
    \/ Teardown

Spec == Init /\ [][Next]_vars

\* ==================================================================== claims

\* A handler has answered and its response is not yet sent.
Answered == last.r # 0

\* The step in which request r's handler answers.
Handled(r) == req[r].pc = "handling" /\ req'[r].pc = "closing"

\* The step in which request r is over and its slot is free again.
Finished(r) == req[r].pc \in {"closing", "rejected"} /\ req'[r].pc = "idle"

\* The role maps as the wirings state them: the caller's role is outside the
\* set configured for the operation.
Denied(a, op, role) ==
    \/ a = "advanced" /\ op \in {"delete", "create"} /\ role # "admin"
    \/ a = "advanced" /\ op = "update" /\ role \notin {"admin", "staff"}
    \/ a = "test" /\ op = "delete" /\ role # "admin"

\* The body does not validate against the operation's schema.
InvalidBody(a, op, body) ==
    \/ op = "create" /\ ~CreateValid(a, body)
    \/ op = "update" /\ ~UpdateValid(a, body)

\* A request whose body did not parse.
Unparsed(r) == req[r].pc = "rejected" /\ req[r].op # "none"

C2_ForbiddenOnlyWhenDenied ==
    /\ \A r \in Requests : req[r].pc = "rejected" => req[r].status # 403
    /\ Answered /\ last.status = 403 => Denied(app, last.op, last.role)

\* C2, the failing case: a request of the advanced example that carries no
\* bearer credentials is answered 403 before any operation's role check.
C2_Witness ==
    \E r \in Requests :
        /\ app = "advanced" /\ req[r].pc = "rejected"
        /\ req[r].tok.kind = "missing" /\ req[r].status = 403

\* C2, the role check alone: a handler answers 403 only for an operation
\* with a role-map entry and a role outside it.
C2_RoleCheckOnlyWhenDenied ==
    Answered /\ last.status = 403 => Denied(app, last.op, last.role)

\* What GET /users/{id} answers on a table.
GetStatus(table, id) ==
    LET answers == {res.status :
                      res \in Respond(app, table, "get", id, EmptyBody, NoRole)}
    IN CHOOSE code \in answers : TRUE

\* C3: after a successful delete(id) a following get(id) yields NotFound; a
\* DELETE of an existing row by role "user" under a role map requiring
\* "admin" returns 403 and leaves the row as readable as it was, the same
\* DELETE by role "admin" returns 200 and the following GET returns 404.
C3_DeleteThenGet ==
    [][\A r \in Requests :
         Handled(r) /\ last'.op = "delete" =>
            LET id == last'.id
                existed == id \in Ids(rows)
            IN /\ last'.status = 200 => GetStatus(rows', id) = 404
               /\ existed /\ app \in {"test", "advanced"}
                          /\ last'.role = "user"
                    => /\ last'.status = 403
                       /\ FindRow(rows', id) = FindRow(rows, id)
                       /\ GetStatus(rows', id) = GetStatus(rows, id)
               /\ existed /\ last'.role = "admin"
                    => last'.status = 200 /\ GetStatus(rows', id) = 404]_vars

\* C3 witness: role "admin" has deleted a row under the role map requiring
\* "admin", and the row is gone.
C3_Witness ==
    /\ app = "test" /\ Answered /\ last.op = "delete"
    /\ last.role = "admin" /\ last.status = 200
    /\ last.id \notin Ids(rows) /\ rows # {}

\* The read-back of a successful create: get on the assigned id returns, for
\* every field of the payload, the value `expected` gives.
RoundTrip(expected(_, _)) ==
    Answered /\ last.op = "create" /\ last.status = 200 =>
        /\ last.id >= 1
        /\ GetStatus(rows, last.id) = 200
        /\ \A row \in FindRow(rows, last.id) :
           \A f \in DOMAIN last.body \ {"id"} :
               ReadSchema(app, row)[f] = expected(f, last.body[f])

\* The input's fields, the schema default filled in for an omitted role.
AsStated(f, v) == IF f = "role" /\ v = Absent THEN "str:user" ELSE v

\* The validated input's fields: a numeric string for age read as that
\* integer, role "user" for an omitted or null role.
AsValidated(f, v) ==
    CASE f = "role" /\ v \in {Absent, Null} -> "str:user"
      [] f = "age" /\ v = "str:25" -> "int:25"
      [] OTHER -> v

\* C4 as stated: create then get returns the fields of the input payload,
\* with role = "user" filled in for an omitted role.
C4_RoundTripAsStated == RoundTrip(AsStated)

\* C4 amended: create then get returns the fields of the payload as
\* CreateSchema validates it: a numeric string given for age comes back as
\* that integer, and role comes back as "user" when omitted or null.
C4_RoundTripValidated == RoundTrip(AsValidated)

\* C4 witness: a create with a null role and a numeric-string age succeeded.
C4_Witness ==
    /\ app = "basic" /\ Answered /\ last.op = "create"
    /\ last.status = 200 /\ last.body.role = Null
    /\ last.body.age = "str:25"

\* The fields of the update schema that the body carries.
Carried(a, body) ==
    {f \in (IF a = "test" THEN {"name", "email", "age"}
            ELSE DOMAIN body \ {"id"}) : body[f] # Absent}

\* C5: a successful update changes only the fields the body carries: every
\* other column of the row, the id included, keeps its value, and no other
\* row changes.
C5_UpdateFrame ==
    [][\A r \in Requests :
         Handled(r) /\ last'.op = "update" /\ last'.status = 200 =>
            \E old \in rows : \E new \in rows' :
                /\ old.id = last'.id /\ new.id = old.id
                /\ rows' \ {new} = rows \ {old}
                /\ \A c \in Columns(app) \ Carried(app, last'.body) :
                       new[c] = old[c]]_vars

\* C5 witness: an update carrying only a name, sent with a role key that
\* UserUpdate does not have, succeeded and the row still has role "user".
C5_Witness ==
    /\ app = "test" /\ Answered /\ last.op = "update"
    /\ last.status = 200
    /\ Carried(app, last.body) = {"name"}
    /\ last.body.role = "str:admin"
    /\ \E row \in FindRow(rows, last.id) :
           row.role = "str:user" /\ row.name = "str:Bob"

\* A body that misses a required field of UserCreate or holds a value of a
\* type no field accepts.
Malformed(op, body) ==
    \/ op = "create" /\ \E f \in DOMAIN body \ {"id", "role"} : body[f] = Absent
    \/ op \in {"create", "update"} /\ \E f \in DOMAIN body : body[f] = Bad

\* Every column of the row holds a value of the column's type or NULL.
WellTyped(row) ==
    /\ row.id >= 1
    /\ \A c \in DOMAIN row \ {"id"} :
           IF c = "age" THEN row[c] \in IntVals \cup {Null}
           ELSE row[c] \in StrVals \cup {Null}

\* C7: a request that ends in ValidationError, NotFound or Forbidden leaves
\* the persisted rows unchanged; an invalid input is rejected (with 422 when
\* the caller is allowed and the addressed row exists, or when it is not
\* JSON) and persists nothing, so every persisted row was built from
\* validated input.
C7_FailuresChangeNothing ==
    /\ [](\A row \in rows : WellTyped(row))
    /\ [][\A r \in Requests :
            /\ Handled(r) =>
                 /\ last'.status \in {422, 404, 403} => rows' = rows
                 /\ Malformed(last'.op, last'.body) =>
                      /\ last'.status \in {422, 404, 403} /\ rows' = rows
                      /\ /\ ~Denied(app, last'.op, last'.role)
                         /\ last'.op = "update" => last'.id \in Ids(rows)
                         => last'.status = 422
            /\ req[r].pc = "idle" /\ req'[r].pc = "rejected"
                 /\ req'[r].op # "none"
                 => req'[r].status = 422 /\ rows' = rows]_vars

\* C7 witness: a create that misses a required field was answered 422 while
\* a row is persisted and another request is in its handler.
C7_Witness ==
    /\ Answered /\ last.op = "create" /\ last.status = 422
    /\ Malformed(last.op, last.body) /\ rows # {}
    /\ \E q \in Requests \ {last.r} : req[q].pc = "handling"

\* C9: no two persisted rows have the same primary key, and no request
\* changes the key of a row: update leaves the set of keys as it is, create
\* adds one row under a key not in use, delete removes one row, and the
\* other rows are untouched.
C9_PrimaryKey ==
    /\ [](\A r1 \in rows : \A r2 \in rows : r1.id = r2.id => r1 = r2)
    /\ [][\A r \in Requests :
            Handled(r) =>
              CASE last'.op = "update" ->
                     /\ Ids(rows') = Ids(rows)
                     /\ Cardinality(rows' \ rows) <= 1
                [] last'.op = "create" ->
                     /\ rows \subseteq rows'
                     /\ Cardinality(rows' \ rows) <= 1
                     /\ \A row \in rows' \ rows : row.id \notin Ids(rows)
                [] last'.op = "delete" ->
                     rows' \subseteq rows /\ Cardinality(rows \ rows') <= 1
                [] OTHER -> rows' = rows]_vars

\* C9 witness: two rows or more are persisted and an update of row 1, sent
\* with the key id = 2 in its body, succeeded.
C9_Witness ==
    /\ Answered /\ last.op = "update" /\ last.status = 200
    /\ last.body.id = "int:2" /\ last.id = 1
    /\ {1, 2} \subseteq Ids(rows)

\* The step in which verify_token answers for request r.
Verified(r) == req[r].pc = "credentials" /\ req'[r].pc # "credentials"

\* A request reaches the session provider and the handler only after
\* add_user_to_request, with the role of its valid token and never the absent
\* value; a request that ended in the dependencies has no session and no
\* handler.
AuthState ==
    app = "advanced" =>
        \A r \in Requests :
          /\ req[r].pc \in {"verified", "opened", "handling"} =>
               req[r].tok.kind = "valid"
          /\ req[r].pc \in {"opened", "handling"} =>
               /\ GetUserRole(req[r]) = req[r].tok.role
               /\ GetUserRole(req[r]) \in Roles
          /\ req[r].pc = "rejected" =>
               req[r].sess = NoSession /\ last.r # r

\* The role check is given the token's role; verify_token changes no row, and
\* a token in `refused` ends in 401.
AuthStep(refused) ==
    app = "advanced" =>
        \A r \in Requests :
          /\ Handled(r) =>
               last'.role = req[r].tok.role /\ last'.role \in Roles
          /\ Verified(r) =>
               /\ rows' = rows /\ last' = last
               /\ req[r].tok.kind \in refused =>
                    req'[r].pc = "rejected" /\ req'[r].status = 401

\* C10: in the advanced example every request passes add_user_to_request
\* before its handler: with a token that is expired or invalid (it does not
\* decode, or its payload is not a TokenData) it ends in 401, no session, no
\* handler and no change of the rows; with a valid token the role
\* get_user_role returns to the role check is the token's role, never the
\* absent value.
C10_AuthBeforeHandler ==
    /\ []AuthState
    /\ [][AuthStep({"expired", "invalid", "malformed"})]_vars

\* C10, the failing case: a request whose token is signed with SECRET_KEY
\* and has a payload without a role has ended in 500, while rows are
\* persisted and another request, with a valid token, is in its handler.
C10_Witness ==
    \E r \in Requests : \E q \in Requests \ {r} :
        /\ app = "advanced" /\ req[r].pc = "rejected"
        /\ req[r].tok.kind = "malformed" /\ req[r].status = 500
        /\ req[q].pc = "handling" /\ rows # {}

\* C10 for the tokens verify_token catches: an expired token and one that
\* does not decode end in 401.
C10_CaughtTokensRefused ==
    /\ []AuthState
    /\ [][AuthStep({"expired", "invalid"})]_vars

\* The sessions held by the requests in flight.
Held == {req[r].sess : r \in {q \in Requests : req[q].sess # NoSession}}

\* C6 as stated: every request acquires exactly one session, and that session
\* is closed when the request completes, whatever the outcome.
C6_EveryRequestOneSession ==
    [][\A r \in Requests :
         Finished(r) =>
            /\ req[r].sess # NoSession
            /\ req[r].sess \in live
            /\ req[r].sess \notin live']_vars

\* C6 amended: with get_db of the examples, a request that passes the
\* router's dependencies acquires one session, not open before, keeps it
\* through the handler and closes it when the request completes, whatever the
\* status; a request that is over before the session provider runs (422 for
\* a body that is not JSON; 403, 401 or 500 in the authentication
\* dependencies) acquires none; the open sessions are exactly those of the
\* requests in flight.  The test fixture's get_db hands out the fixture's session and
\* leaves it open until the fixture's teardown.
C6_SessionScopedToRequest ==
    /\ [](IF app = "test"
          THEN live = (IF fixture = "up" THEN {FixtureSession} ELSE {})
          ELSE /\ live = Held
               /\ \A r \in Requests :
                    req[r].sess # NoSession
                        <=> req[r].pc \in {"handling", "closing"})
    /\ [][\A r \in Requests :
            app # "test" =>
              /\ req[r].pc = "opened" /\ req'[r].pc = "handling" =>
                   req'[r].sess \notin live /\ live' = live \cup {req'[r].sess}
              /\ Handled(r) => req'[r].sess = req[r].sess /\ live' = live
              /\ Finished(r) =>
                   IF req[r].pc = "rejected" THEN live' = live
                   ELSE /\ req[r].sess \in live
                        /\ live' = live \ {req[r].sess}]_vars

\* C6 witness: in an example a request whose handler raised (500) still holds
\* its session, the second one opened, and it is the only session open: the
\* one opened before it has been closed.
C6_Witness ==
    \E r \in Requests :
        /\ app # "test" /\ req[r].pc = "closing" /\ last.r = r
        /\ last.status = 500 /\ req[r].sess = 2 /\ live = {2}

\* C8 as stated: no two requests in flight at the same time use the same
\* session, for the example providers and for the test fixture's override.
C8_NeverShared ==
    \A r \in Requests : \A q \in Requests \ {r} :
        req[r].sess # NoSession /\ req[q].sess # NoSession
            => req[r].sess # req[q].sess

\* C8 amended: with get_db of the examples no two requests in flight at the
\* same time use the same session; under the test fixture's get_db override
\* every request uses the fixture's one session.
C8_OwnSessionInExamples ==
    \A r \in Requests : \A q \in Requests \ {r} :
        req[r].sess # NoSession /\ req[q].sess # NoSession
            => IF app = "test"
               THEN req[r].sess = FixtureSession /\ req[q].sess = FixtureSession
               ELSE req[r].sess # req[q].sess

\* C8 witness: two requests of the basic example are in their handlers, each
\* with a session of its own.
C8_Witness ==
    \E r \in Requests : \E q \in Requests \ {r} :
        /\ app = "basic"
        /\ req[r].pc = "handling" /\ req[q].pc = "handling"
        /\ req[r].sess \in live /\ req[q].sess \in live
        /\ req[r].sess # req[q].sess

============================================================================
